---------------------------- MODULE Spec2Model ----------------------------
(***************************************************************************)
(* ESPOTAService (src/unnamed/part_001, lines 168-439): the UDP invitation *)
(* with its retry timer chain (sendInvitation), the acknowledgment-gated   *)
(* TCP transfer (sendFile), and the two callers uploadFirmware and         *)
(* testConnection.                                                         *)
(*                                                                         *)
(* Every action is one JavaScript macrotask: a call from the application,  *)
(* a timer expiry, or an event delivered by the UDP/TCP socket layer.  The *)
(* continuation of an `await` is a microtask: it runs before any other     *)
(* macrotask, which the guard ~MicrotaskPending expresses.                 *)
(*                                                                         *)
(* The socket layer (react-native-udp, react-native-tcp-socket) is the     *)
(* environment.  What the model takes from it: a UDP socket emits          *)
(* 'message' only while it is open; an event emitted while no listener is  *)
(* registered is dropped; server.close() stops the listener and leaves     *)
(* accepted connections as they are; the callback of a send or a write may *)
(* report an error.  The log sink has no part in the state.                *)
(***************************************************************************)
EXTENDS Integers, Sequences, FiniteSets

(***************************************************************************)
(* Program constants.                                                      *)
(***************************************************************************)
\* Mutant: one attempt more than the ten announced.
maxAttemptsOneMore == 10 + 1

maxAttempts == 10

AttemptWaitMs == 1000

chunkSize == 1024

FLASH == 0

TestPort == 12345

PortBase == 10000

PortSpan == 50000

(***************************************************************************)
(* Bounds of the model.                                                    *)
(***************************************************************************)
MaxFileSize == 2500

MaxConns == 2

\* Sends of one invitation whose error callback is outstanding at one time.
MaxSendErrors == 1

\* Concurrent calls of uploadFirmware, and the largest of the small values
\* Math.random() * 50000 takes.
MaxCalls == 2
MaxDraw == 8

(***************************************************************************)
(* Texts are sequences of characters.  A character is a one-character      *)
(* string; a character that cannot be written in a string here is named by *)
(* its code point ("U+00A0").                                              *)
(***************************************************************************)
Undefined == <<"undefined">>

\* The characters String.prototype.trim removes: WhiteSpace and
\* LineTerminator of ECMAScript.
WhiteSpace ==
  { "\t", "U+000B", "\f", " ", "U+00A0", "U+FEFF",
    "U+1680", "U+2000", "U+2001", "U+2002", "U+2003", "U+2004", "U+2005",
    "U+2006", "U+2007", "U+2008", "U+2009", "U+200A", "U+202F", "U+205F",
    "U+3000" }

LineTerminators == {"\n", "\r", "U+2028", "U+2029"}

IsSpace(c) == c \in WhiteSpace \cup LineTerminators

RECURSIVE TrimStart(_)
TrimStart(s) ==
  IF s # <<>> /\ IsSpace(Head(s)) THEN TrimStart(Tail(s)) ELSE s

RECURSIVE TrimEnd(_)
TrimEnd(s) ==
  IF s # <<>> /\ IsSpace(s[Len(s)]) THEN TrimEnd(SubSeq(s, 1, Len(s) - 1)) ELSE s

Trim(s) == TrimEnd(TrimStart(s))

StartsWith(s, p) == Len(s) >= Len(p) /\ SubSeq(s, 1, Len(p)) = p

\* Whether p occurs in s as a substring (String.prototype.includes).
Includes(s, p) ==
  \E i \in 0..(Len(s) - Len(p)) : SubSeq(s, i + 1, i + Len(p)) = p

\* s.split(' '): the tokens between single spaces, empty tokens kept.
RECURSIVE SplitFrom(_, _)
SplitFrom(s, cur) ==
  IF s = <<>> THEN <<cur>>
  ELSE IF Head(s) = " " THEN <<cur>> \o SplitFrom(Tail(s), <<>>)
  ELSE SplitFrom(Tail(s), Append(cur, Head(s)))

Split(s) == SplitFrom(s, <<>>)

\* split(' ')[1]: the second token, undefined when there is none.
SecondToken(s) == IF Len(Split(s)) >= 2 THEN Split(s)[2] ELSE Undefined

TextOK == <<"O", "K">>

TextAUTH == <<"A", "U", "T", "H">>
TextAuthNonce == <<"A", "U", "T", "H", " ", "a", "b", "c", "1", "2", "3">>
TextNonce == <<"a", "b", "c", "1", "2", "3">>

\* The datagrams a device (or any host) may answer with.
Replies ==
  { TextOK,
    <<"O", "K", "\n">>,
    <<"\f", "O", "K", "U+00A0">>,
    <<"O", "K", "A", "Y">>,
    TextAuthNonce,
    TextAUTH,
    <<"A", "U", "T", "H", "X">>,
    <<"E", "R", "R">>,
    <<>> }

\* The acknowledgments a connected device may send on the TCP connection.
Acks ==
  { TextOK,
    <<"O", "K", "\n">>,
    <<"1", "0", "2", "4">>,
    <<"\n">>,
    <<"\f">>,
    <<>>,
    <<"E", "R", "R">>,
    <<"E", "R", "R", " ", "O", "K">> }

(***************************************************************************)
(* The outcome of a promise.                                               *)
(***************************************************************************)
Pending == [kind |-> "pending"]

\* Mutant: the whole reply text is taken as the nonce.
InvitationOutcomeWholeNonce(response) ==
  IF response = TextOK
    THEN [kind |-> "resolved", success |-> TRUE, needsAuth |-> FALSE]
  ELSE IF StartsWith(response, TextAUTH)
    THEN [kind |-> "resolved", success |-> TRUE, needsAuth |-> TRUE,
          nonce |-> response]
  ELSE [kind |-> "rejected", error |-> "BadResponse", raw |-> response]

\* responseHandler's classification of the trimmed reply text.
InvitationOutcome(response) ==
  IF response = TextOK
    THEN [kind |-> "resolved", success |-> TRUE, needsAuth |-> FALSE]
  ELSE IF StartsWith(response, TextAUTH)
    THEN [kind |-> "resolved", success |-> TRUE, needsAuth |-> TRUE,
          nonce |-> SecondToken(response)]
  ELSE [kind |-> "rejected", error |-> "BadResponse", raw |-> response]

\* resolve/reject of a promise: only the first call settles it.
Settle(outcome, o) == IF outcome = Pending THEN o ELSE outcome

\* Mutant: only the text "OK" and the empty text are positive.
PositiveAckExact(responseStr) == responseStr = TextOK \/ responseStr = <<>>

\* The acknowledgment test of the chunk loop.
PositiveAck(responseStr) == Includes(responseStr, TextOK) \/ responseStr = <<>>

Min(a, b) == IF a <= b THEN a ELSE b

\* The digest of the content read, the content being known by its length.
calculateMD5(data) == <<"md5", data>>

\* The firmware sizes of the model: whole chunks, one byte more, and the
\* 452-byte tail of the 2500-byte image.
FileSizes ==
  {s \in 0..MaxFileSize : s % chunkSize \in {0, 1, 452}} \cup {MaxFileSize}

\* The lengths of the file uploadFirmware is called on: empty, or a chunk and
\* a byte.
DiskSizes == {0, chunkSize + 1}

\* The lengths the file is given when it is rewritten during the call.
RewrittenSizes == {chunkSize \div 2}

\* Math.floor(Math.random() * 50000) + 10000 at the ends of its range.
LocalPorts == {PortBase, PortBase + PortSpan - 1}

Conns == 1..MaxConns

\* The calls of uploadFirmware that run at the same time.
Calls == 1..MaxCalls


(***************************************************************************)
(* State.                                                                  *)
(***************************************************************************)
VARIABLES
  mode,            \* the call made: "upload", "test" or "sendFile"
  pc,              \* where the caller stands
  fileSize,        \* RNFS.stat(filePath).size, 0 before the stat returned
  bufLen,          \* length of Buffer.from(fileContent, 'base64'), 0 before the read
  localPort,       \* the port announced in the invitation
  upOutcome,       \* the promise of uploadFirmware or testConnection
  invCalls,        \* calls of sendInvitation
  fileCalls,       \* calls of sendFile
  message,         \* the invitation datagram: command, port, size, digest
  udp,             \* the UDP socket: "none", "open", "closed"
  attempts,        \* sendInvitation's attempt counter
  handlers,        \* attempts whose responseHandler is registered for 'message'
  timer,           \* the attempt whose 1000 ms timer is pending, 0 for none
  sendErrPending,  \* sends whose callback will report an error, not yet called
  datagrams,       \* datagrams that left on the wire
  waitedMs,        \* time spent in expired attempt timers
  invOutcome,      \* the promise of sendInvitation
  attemptsAtSettle,\* attempts when that promise settled
  repliesHandled,  \* runs of responseHandler
  droppedReplies,  \* a reply reached the socket and no handler ran
  closedOps,       \* operations performed on the UDP socket after its close
  server,          \* the TCP listener: "none", "binding", "listening", "errored", "closed"
  serverCloses,    \* calls of server.close()
  watchdog,        \* the 60 s timer of sendFile: "idle", "armed", "fired"
  wdFiredPending,  \* the promise of sendFile was pending when the watchdog fired
  fileOutcome,     \* the promise of sendFile
  conns,           \* the accepted connections and their chunk loops
  refused,         \* a connection attempt of the device was refused
  lostAcks,        \* an acknowledgment reached a connection with no 'data' listener
  disk,            \* the length of the file at filePath, as it is now
  ports,           \* the local port of each running call of uploadFirmware, 0 for none
  progressCallback,\* the service's progress sink: "null" or "set"
  lastProgress     \* uploadedBytes of the value the sink was last given, -1 for none

upVars == <<mode, pc, fileSize, bufLen, localPort, upOutcome, invCalls, fileCalls>>

invVars == <<message, udp, attempts, handlers, timer, sendErrPending, datagrams,
             waitedMs, invOutcome, attemptsAtSettle, repliesHandled,
             droppedReplies, closedOps>>

fileVars == <<server, serverCloses, watchdog, wdFiredPending, fileOutcome, conns>>

envVars == <<refused, lostAcks, disk, ports>>

svcVars == <<progressCallback, lastProgress>>

vars == <<upVars, invVars, fileVars, envVars, svcVars>>

NoConn == [stage |-> "none", sock |-> "none", uploadedBytes |-> 0,
           chunks |-> <<>>, acks |-> 0, reports |-> 0]

Init ==
  /\ mode \in {"upload", "test", "sendFile"}
  /\ pc = "Idle"
  /\ fileSize \in FileSizes
  /\ bufLen \in {fileSize, fileSize \div 2}
  /\ (mode # "sendFile" => fileSize = 0 /\ bufLen = 0)
  /\ disk \in DiskSizes
  /\ (mode # "upload" => disk = 0)
  /\ localPort = 0
  /\ upOutcome = Pending
  /\ invCalls = 0
  /\ fileCalls = 0
  /\ message = <<>>
  /\ udp = "none"
  /\ attempts = 0
  /\ handlers = {}
  /\ timer = 0
  /\ sendErrPending = 0
  /\ datagrams = 0
  /\ waitedMs = 0
  /\ invOutcome = Pending
  /\ attemptsAtSettle = 0
  /\ repliesHandled = 0
  /\ droppedReplies = FALSE
  /\ closedOps = {}
  /\ server = "none"
  /\ serverCloses = 0
  /\ watchdog = "idle"
  /\ wdFiredPending = FALSE
  /\ fileOutcome = Pending
  /\ conns = [c \in Conns |-> NoConn]
  /\ refused = FALSE
  /\ lostAcks = FALSE
  /\ ports = [k \in Calls |-> 0]
  /\ progressCallback = "null"
  /\ lastProgress = -1

\* The continuation of an await is ready: it runs before any other macrotask.
MicrotaskPending ==
  \/ pc = "InvitationPending" /\ invOutcome # Pending
  \/ pc = "TransferInProgress" /\ fileOutcome # Pending

\* The values setProgressCallback is called with: no sink, or a function.
Callbacks == {"null", "set"}

\* setProgressCallback(callback), at any moment between two callbacks.
setProgressCallback(callback) ==
  /\ ~MicrotaskPending
  /\ progressCallback' = callback
  /\ UNCHANGED <<lastProgress, envVars, upVars, invVars, fileVars>>

(***************************************************************************)
(* sendInvitation.                                                         *)
(***************************************************************************)

\* What socket.send does on a socket that was closed: it throws, it reports
\* the error to the callback (which closes and rejects again), or it does
\* nothing.  The socket layer decides; no datagram leaves.
ClosedSendBehaviours == {"throws", "errcb", "ignored"}

\* Whether a send on the open socket puts its datagram on the wire (TRUE) or
\* will report an error to its callback (FALSE).
SendResults == IF sendErrPending < MaxSendErrors THEN BOOLEAN ELSE {TRUE}

\* Mutant: the close of the UDP socket is left out.
UdpCloseLeftOut(ops) ==
  /\ udp' = udp
  /\ closedOps' = ops

\* socket.close() of the UDP socket.
UdpClose(ops) ==
  /\ udp' = "closed"
  /\ closedOps' = IF udp = "closed" THEN ops \cup {"close"} ELSE ops

\* sendAttempt, entered with the listener set hs.
SendAttempt(hs) ==
  /\ attempts' = attempts + 1
  /\ IF udp = "open"
       THEN /\ \E sent \in SendResults :
                 /\ datagrams' = IF sent THEN datagrams + 1 ELSE datagrams
                 /\ sendErrPending' =
                      IF sent THEN sendErrPending ELSE sendErrPending + 1
            /\ handlers' = hs \cup {attempts + 1}
            /\ timer' = attempts + 1
            /\ closedOps' = closedOps
       ELSE /\ UNCHANGED <<datagrams, sendErrPending>>
            /\ \E b \in ClosedSendBehaviours :
                 IF b = "throws"
                   THEN /\ handlers' = hs
                        /\ timer' = 0
                        /\ closedOps' = closedOps \cup {"removeListener", "send"}
                   ELSE /\ handlers' = hs \cup {attempts + 1}
                        /\ timer' = attempts + 1
                        /\ closedOps' = closedOps \cup {"removeListener", "send", "on"}
                              \cup (IF b = "errcb" THEN {"close"} ELSE {})

\* Mutant: the attempt counter starts at 1 instead of 0, so the first attempt
\* is counted as the second.
CallSendInvitationFromOne(port, size, digest) ==
  /\ message' = <<FLASH, port, size, digest>>
  /\ udp' = "open"
  /\ attempts' = 2
  /\ \E sent \in BOOLEAN :
       /\ datagrams' = IF sent THEN 1 ELSE 0
       /\ sendErrPending' = IF sent THEN 0 ELSE 1
  /\ handlers' = {2}
  /\ timer' = 2
  /\ UNCHANGED <<waitedMs, invOutcome, attemptsAtSettle, repliesHandled,
                 droppedReplies, closedOps>>

\* Mutant: the invitation announces the size in KB, as the log line prints it.
CallSendInvitationSizeKB(port, size, digest) ==
  /\ message' = <<FLASH, port, size \div chunkSize, digest>>
  /\ udp' = "open"
  /\ attempts' = 1
  /\ \E sent \in BOOLEAN :
       /\ datagrams' = IF sent THEN 1 ELSE 0
       /\ sendErrPending' = IF sent THEN 0 ELSE 1
  /\ handlers' = {1}
  /\ timer' = 1
  /\ UNCHANGED <<waitedMs, invOutcome, attemptsAtSettle, repliesHandled,
                 droppedReplies, closedOps>>

\* The promise executor of sendInvitation: the socket, the message, the first
\* attempt.
CallSendInvitation(port, size, digest) ==
  /\ message' = <<FLASH, port, size, digest>>
  /\ udp' = "open"
  /\ attempts' = 1
  /\ \E sent \in BOOLEAN :
       /\ datagrams' = IF sent THEN 1 ELSE 0
       /\ sendErrPending' = IF sent THEN 0 ELSE 1
  /\ handlers' = {1}
  /\ timer' = 1
  /\ UNCHANGED <<waitedMs, invOutcome, attemptsAtSettle, repliesHandled,
                 droppedReplies, closedOps>>

\* The callback of socket.send reports an error.
SendErrorCallback ==
  /\ ~MicrotaskPending
  /\ sendErrPending > 0
  /\ sendErrPending' = sendErrPending - 1
  /\ UdpClose(closedOps)
  /\ invOutcome' = Settle(invOutcome, [kind |-> "rejected", error |-> "SendError"])
  /\ attemptsAtSettle' = IF invOutcome = Pending THEN attempts ELSE attemptsAtSettle
  /\ UNCHANGED <<message, attempts, handlers, timer, datagrams, waitedMs,
                 repliesHandled, droppedReplies>>
  /\ UNCHANGED <<svcVars, envVars, upVars, fileVars>>

\* Mutant: responseHandler settles the call and leaves the socket open.
DeviceReplyNoClose(data) ==
  /\ ~MicrotaskPending
  /\ datagrams > 0
  /\ IF udp = "open" /\ handlers # {}
       THEN /\ repliesHandled' = repliesHandled + Cardinality(handlers)
            /\ handlers' = {}
            /\ invOutcome' = Settle(invOutcome, InvitationOutcome(Trim(data)))
            /\ attemptsAtSettle' =
                 IF invOutcome = Pending THEN attempts ELSE attemptsAtSettle
            /\ UNCHANGED <<droppedReplies, udp, closedOps>>
       ELSE /\ droppedReplies' = TRUE
            /\ UNCHANGED <<repliesHandled, handlers, udp, closedOps, invOutcome,
                           attemptsAtSettle>>
  /\ UNCHANGED <<message, attempts, timer, sendErrPending, datagrams, waitedMs>>
  /\ UNCHANGED <<svcVars, envVars, upVars, fileVars>>

\* A datagram reaches the socket.  An open socket emits 'message' and every
\* registered responseHandler runs; a closed socket emits nothing.
DeviceReply(data) ==
  /\ ~MicrotaskPending
  /\ datagrams > 0
  /\ IF udp = "open" /\ handlers # {}
       THEN /\ repliesHandled' = repliesHandled + Cardinality(handlers)
            /\ handlers' = {}
            /\ udp' = "closed"
            /\ closedOps' = IF Cardinality(handlers) > 1
                              THEN closedOps \cup {"close"} ELSE closedOps
            /\ invOutcome' = Settle(invOutcome, InvitationOutcome(Trim(data)))
            /\ attemptsAtSettle' =
                 IF invOutcome = Pending THEN attempts ELSE attemptsAtSettle
            /\ UNCHANGED droppedReplies
       ELSE /\ droppedReplies' = TRUE
            /\ UNCHANGED <<repliesHandled, handlers, udp, closedOps, invOutcome,
                           attemptsAtSettle>>
  /\ UNCHANGED <<message, attempts, timer, sendErrPending, datagrams, waitedMs>>
  /\ UNCHANGED <<svcVars, envVars, upVars, fileVars>>

\* Mutant: the expired attempt's listener is not removed before the next
\* attempt registers its own.
AttemptTimerKeepsListener ==
  /\ ~MicrotaskPending
  /\ timer # 0
  /\ waitedMs' = waitedMs + AttemptWaitMs
  /\ IF attempts < maxAttempts
       THEN /\ SendAttempt(handlers)
            /\ UNCHANGED udp
            /\ UNCHANGED <<invOutcome, attemptsAtSettle>>
       ELSE /\ handlers' = handlers \ {timer}
            /\ UdpClose(IF udp = "closed"
                          THEN closedOps \cup {"removeListener"} ELSE closedOps)
            /\ invOutcome' =
                 Settle(invOutcome, [kind |-> "rejected", error |-> "NoResponse"])
            /\ attemptsAtSettle' =
                 IF invOutcome = Pending THEN attempts ELSE attemptsAtSettle
            /\ timer' = 0
            /\ UNCHANGED <<attempts, datagrams, sendErrPending>>
  /\ UNCHANGED <<message, repliesHandled, droppedReplies>>
  /\ UNCHANGED <<svcVars, envVars, upVars, fileVars>>

\* The 1000 ms timer of an attempt expires.
AttemptTimer ==
  /\ ~MicrotaskPending
  /\ timer # 0
  /\ waitedMs' = waitedMs + AttemptWaitMs
  /\ IF attempts < maxAttempts
       THEN /\ SendAttempt(handlers \ {timer})
            /\ UNCHANGED udp
            /\ UNCHANGED <<invOutcome, attemptsAtSettle>>
       ELSE /\ handlers' = handlers \ {timer}
            /\ UdpClose(IF udp = "closed"
                          THEN closedOps \cup {"removeListener"} ELSE closedOps)
            /\ invOutcome' =
                 Settle(invOutcome, [kind |-> "rejected", error |-> "NoResponse"])
            /\ attemptsAtSettle' =
                 IF invOutcome = Pending THEN attempts ELSE attemptsAtSettle
            /\ timer' = 0
            /\ UNCHANGED <<attempts, datagrams, sendErrPending>>
  /\ UNCHANGED <<message, repliesHandled, droppedReplies>>
  /\ UNCHANGED <<svcVars, envVars, upVars, fileVars>>


(***************************************************************************)
(* sendFile.                                                               *)
(***************************************************************************)

\* Mutant: every chunk is counted as a full one, the last included.
CurrentChunkSizeFull(uploadedBytes) == chunkSize

\* Math.min(chunkSize, fileSize - uploadedBytes)
CurrentChunkSize(uploadedBytes) == Min(chunkSize, fileSize - uploadedBytes)

\* The length of buffer.slice(from, to) for 0 <= from <= to.
SliceLen(from, to) == Min(bufLen, to) - Min(bufLen, from)

\* sendChunk finds the upload complete.
Complete(cn) == cn.uploadedBytes >= fileSize

\* sendChunk on connection cn: the completion branch, or the write of the
\* next chunk.
SendChunk(cn) ==
  IF Complete(cn)
    THEN [cn EXCEPT !.stage = "done",
                    !.sock = IF @ = "open" THEN "ended" ELSE @]
    ELSE [cn EXCEPT !.stage = "writing",
                    !.chunks = Append(@, SliceLen(cn.uploadedBytes,
                                 cn.uploadedBytes + CurrentChunkSize(cn.uploadedBytes)))]

\* server.close()
ServerClose ==
  /\ server' = "closed"
  /\ serverCloses' = serverCloses + 1

Success == [kind |-> "resolved", success |-> TRUE, fileSize |-> fileSize]

Failure(e) == [kind |-> "rejected", error |-> e]

\* The promise executor of sendFile: the server is created, listen is called,
\* the error handler is registered and the 60 s watchdog is armed.
CallSendFile ==
  /\ server' = "binding"
  /\ watchdog' = "armed"
  /\ UNCHANGED <<serverCloses, wdFiredPending, fileOutcome, conns>>

\* The device, having answered "OK", connects to the announced port while no
\* listener is bound to it: the connection is refused.
ConnectRefused ==
  /\ invOutcome = [kind |-> "resolved", success |-> TRUE, needsAuth |-> FALSE]
  /\ server \in {"none", "binding"}
  /\ ~refused
  /\ refused' = TRUE
  /\ UNCHANGED <<lostAcks, disk, ports>>
  /\ UNCHANGED <<svcVars, upVars, invVars, fileVars>>

\* The callback of server.listen: the port is bound.
ListenCallback ==
  /\ ~MicrotaskPending
  /\ server = "binding"
  /\ server' = "listening"
  /\ UNCHANGED <<serverCloses, watchdog, wdFiredPending, fileOutcome, conns>>
  /\ UNCHANGED <<svcVars, envVars, upVars, invVars>>

\* The server emits 'error' (the bind fails, or the listener breaks).
ServerError ==
  /\ ~MicrotaskPending
  /\ server \in {"binding", "listening"}
  /\ server' = "errored"
  /\ fileOutcome' = Settle(fileOutcome, Failure("ServerError"))
  /\ UNCHANGED <<serverCloses, watchdog, wdFiredPending, conns>>
  /\ UNCHANGED <<svcVars, envVars, upVars, invVars>>

\* The connection callback of createServer: a device connected.  Connections
\* are numbered in the order of their arrival.
Accept(c) ==
  /\ ~MicrotaskPending
  /\ server = "listening"
  /\ conns[c].stage = "none"
  /\ \A d \in Conns : d < c => conns[d].stage # "none"
  /\ LET cn == SendChunk([NoConn EXCEPT !.sock = "open"])
     IN  /\ conns' = [conns EXCEPT ![c] = cn]
         /\ IF cn.stage = "done"
              THEN /\ ServerClose
                   /\ fileOutcome' = Settle(fileOutcome, Success)
              ELSE UNCHANGED <<server, serverCloses, fileOutcome>>
  /\ UNCHANGED <<watchdog, wdFiredPending>>
  /\ UNCHANGED <<svcVars, envVars, upVars, invVars>>

\* The callback of socket.write, with or without an error.
WriteCallback(c, err) ==
  /\ ~MicrotaskPending
  /\ conns[c].stage = "writing"
  /\ IF err
       THEN /\ conns' = [conns EXCEPT ![c].stage = "stopped"]
            /\ ServerClose
            /\ fileOutcome' = Settle(fileOutcome, Failure("WriteError"))
            /\ UNCHANGED lastProgress
       ELSE /\ conns' = [conns EXCEPT
                 ![c].uploadedBytes = @ + CurrentChunkSize(@),
                 ![c].reports = IF progressCallback # "null" THEN @ + 1 ELSE @,
                 ![c].stage = "awaitAck"]
            /\ lastProgress' = IF progressCallback # "null"
                                 THEN conns'[c].uploadedBytes
                                 ELSE lastProgress
            /\ UNCHANGED <<server, serverCloses, fileOutcome>>
  /\ UNCHANGED <<watchdog, wdFiredPending>>
  /\ UNCHANGED <<progressCallback, envVars, upVars, invVars>>

\* The connection emits 'data'.  The handler registered by once('data') runs
\* when there is one; without a listener the data is dropped.
DeviceData(c, response) ==
  /\ ~MicrotaskPending
  /\ conns[c].sock = "open"
  /\ IF conns[c].stage = "awaitAck"
       THEN IF PositiveAck(Trim(response))
              THEN /\ conns' = [conns EXCEPT ![c].stage = "delay",
                                             ![c].acks = @ + 1]
                   /\ UNCHANGED <<server, serverCloses, fileOutcome>>
              ELSE /\ conns' = [conns EXCEPT ![c].stage = "stopped"]
                   /\ ServerClose
                   /\ fileOutcome' = Settle(fileOutcome, Failure("BadAck"))
       ELSE UNCHANGED <<conns, server, serverCloses, fileOutcome>>
  /\ UNCHANGED <<watchdog, wdFiredPending>>
  /\ UNCHANGED <<svcVars, envVars, upVars, invVars>>

\* The device's acknowledgment of the chunk being written reaches the
\* connection before the callback of socket.write has run: once('data') is not
\* registered yet, the 'data' event has no listener and is dropped.
EarlyAck(c, response) ==
  /\ ~MicrotaskPending
  /\ conns[c].sock = "open"
  /\ conns[c].stage = "writing"
  /\ ~lostAcks
  /\ lostAcks' = TRUE
  /\ UNCHANGED <<refused, disk, ports>>
  /\ UNCHANGED <<svcVars, upVars, invVars, fileVars>>

\* The 10 ms timer set after a positive acknowledgment expires: sendChunk.
ChunkDelay(c) ==
  /\ ~MicrotaskPending
  /\ conns[c].stage = "delay"
  /\ LET cn == SendChunk(conns[c])
     IN  /\ conns' = [conns EXCEPT ![c] = cn]
         /\ IF cn.stage = "done"
              THEN /\ ServerClose
                   /\ fileOutcome' = Settle(fileOutcome, Success)
              ELSE UNCHANGED <<server, serverCloses, fileOutcome>>
  /\ UNCHANGED <<watchdog, wdFiredPending>>
  /\ UNCHANGED <<svcVars, envVars, upVars, invVars>>

\* The connection emits 'error'.
SocketError(c) ==
  /\ ~MicrotaskPending
  /\ conns[c].sock = "open"
  /\ conns' = [conns EXCEPT ![c].sock = "error"]
  /\ ServerClose
  /\ fileOutcome' = Settle(fileOutcome, Failure("SocketError"))
  /\ UNCHANGED <<watchdog, wdFiredPending>>
  /\ UNCHANGED <<svcVars, envVars, upVars, invVars>>

\* Mutant: the watchdog closes the listener and does not reject.
WatchdogNoReject ==
  /\ ~MicrotaskPending
  /\ watchdog = "armed"
  /\ watchdog' = "fired"
  /\ wdFiredPending' = (fileOutcome = Pending)
  /\ ServerClose
  /\ UNCHANGED <<fileOutcome, conns>>
  /\ UNCHANGED <<svcVars, envVars, upVars, invVars>>

\* Mutant: the watchdog rejects and leaves the listener open.
WatchdogNoClose ==
  /\ ~MicrotaskPending
  /\ watchdog = "armed"
  /\ watchdog' = "fired"
  /\ wdFiredPending' = (fileOutcome = Pending)
  /\ fileOutcome' = Settle(fileOutcome, Failure("Timeout"))
  /\ UNCHANGED <<server, serverCloses, conns>>
  /\ UNCHANGED <<svcVars, envVars, upVars, invVars>>

\* The 60 s timer set by sendFile expires.
Watchdog ==
  /\ ~MicrotaskPending
  /\ watchdog = "armed"
  /\ watchdog' = "fired"
  /\ wdFiredPending' = (fileOutcome = Pending)
  /\ ServerClose
  /\ fileOutcome' = Settle(fileOutcome, Failure("Timeout"))
  /\ UNCHANGED conns
  /\ UNCHANGED <<svcVars, envVars, upVars, invVars>>

(***************************************************************************)
(* uploadFirmware and testConnection.                                      *)
(***************************************************************************)

\* uploadFirmware up to its await of RNFS.stat: the call is logged.
UploadFirmware ==
  /\ mode = "upload"
  /\ pc = "Idle"
  /\ pc' = "StatPending"
  /\ UNCHANGED <<svcVars, envVars, mode, fileSize, bufLen, localPort, upOutcome,
                 invCalls, fileCalls>>
  /\ UNCHANGED <<invVars, fileVars>>

\* The file at filePath is written by someone else between the return of
\* RNFS.stat and that of RNFS.readFile.  (Written before the stat returns, it
\* is the file the call sees throughout.)
FileRewritten(size) ==
  /\ mode = "upload"
  /\ pc = "ReadPending"
  /\ size # disk
  /\ disk' = size
  /\ UNCHANGED <<refused, lostAcks, ports>>
  /\ UNCHANGED <<svcVars, upVars, invVars, fileVars>>

\* RNFS.stat resolved: fileSize is taken, RNFS.readFile is awaited.
UploadAfterStat ==
  /\ mode = "upload"
  /\ pc = "StatPending"
  /\ fileSize' = disk
  /\ pc' = "ReadPending"
  /\ UNCHANGED <<svcVars, envVars, mode, bufLen, localPort, upOutcome, invCalls,
                 fileCalls>>
  /\ UNCHANGED <<invVars, fileVars>>

\* Mutant: sendInvitation is not awaited, sendFile is started at once.
UploadAfterReadNoAwait ==
  /\ mode = "upload"
  /\ pc = "ReadPending"
  /\ bufLen' = disk
  /\ \E port \in LocalPorts :
       /\ localPort' = port
       /\ CallSendInvitation(port, fileSize, calculateMD5(disk))
  /\ invCalls' = invCalls + 1
  /\ CallSendFile
  /\ fileCalls' = fileCalls + 1
  /\ pc' = "TransferInProgress"
  /\ UNCHANGED <<svcVars, envVars, mode, fileSize, upOutcome>>

\* RNFS.readFile resolved: the digest of the content is computed, the port
\* drawn, the invitation started and awaited.
UploadAfterRead ==
  /\ mode = "upload"
  /\ pc = "ReadPending"
  /\ bufLen' = disk
  /\ \E port \in LocalPorts :
       /\ localPort' = port
       /\ CallSendInvitation(port, fileSize, calculateMD5(disk))
  /\ invCalls' = invCalls + 1
  /\ pc' = "InvitationPending"
  /\ UNCHANGED <<svcVars, envVars, mode, fileSize, upOutcome, fileCalls>>
  /\ UNCHANGED fileVars

\* RNFS.stat or RNFS.readFile fails: the catch block logs and rethrows.
UploadReadFails ==
  /\ mode = "upload"
  /\ pc \in {"StatPending", "ReadPending"}
  /\ pc' = "Aborted"
  /\ upOutcome' = [kind |-> "rejected", error |-> "ReadError"]
  /\ UNCHANGED <<svcVars, envVars, mode, fileSize, bufLen, localPort, invCalls, fileCalls>>
  /\ UNCHANGED <<invVars, fileVars>>

\* uploadFirmware after the invitation settled: sendFile, or the catch block.
UploadAfterInvitation ==
  /\ mode = "upload"
  /\ pc = "InvitationPending"
  /\ invOutcome # Pending
  /\ IF invOutcome.kind = "resolved" /\ invOutcome.success
       THEN /\ pc' = "TransferInProgress"
            /\ CallSendFile
            /\ fileCalls' = fileCalls + 1
            /\ UNCHANGED upOutcome
       ELSE /\ pc' = "Aborted"
            /\ upOutcome' = invOutcome
            /\ UNCHANGED <<fileCalls, fileVars>>
  /\ UNCHANGED <<svcVars, envVars, mode, fileSize, bufLen, localPort, invCalls>>
  /\ UNCHANGED invVars

\* The value uploadFirmware returns after a successful transfer.
UploadResult ==
  [kind |-> "resolved", success |-> TRUE, fileSize |-> fileSize,
   fileMD5 |-> calculateMD5(bufLen)]

\* Mutant: after a rejection of sendFile the transfer is tried again.
UploadAfterTransferRetry ==
  /\ mode = "upload"
  /\ pc = "TransferInProgress"
  /\ fileOutcome # Pending
  /\ IF fileOutcome.kind = "resolved"
       THEN /\ pc' = "Completed"
            /\ upOutcome' = UploadResult
            /\ UNCHANGED <<fileCalls, fileVars>>
       ELSE /\ pc' = "TransferInProgress"
            /\ fileCalls' = fileCalls + 1
            /\ server' = "binding"
            /\ watchdog' = "armed"
            /\ fileOutcome' = Pending
            /\ conns' = [c \in Conns |-> NoConn]
            /\ UNCHANGED <<upOutcome, serverCloses, wdFiredPending>>
  /\ UNCHANGED <<svcVars, envVars, mode, fileSize, bufLen, localPort, invCalls>>
  /\ UNCHANGED invVars

\* Mutant: a rejection of sendFile is swallowed and the result returned.
UploadAfterTransferSwallow ==
  /\ mode = "upload"
  /\ pc = "TransferInProgress"
  /\ fileOutcome # Pending
  /\ pc' = "Completed"
  /\ upOutcome' = UploadResult
  /\ UNCHANGED <<svcVars, envVars, mode, fileSize, bufLen, localPort, invCalls, fileCalls>>
  /\ UNCHANGED <<invVars, fileVars>>

\* uploadFirmware after sendFile settled: the result, or the catch block.
UploadAfterTransfer ==
  /\ mode = "upload"
  /\ pc = "TransferInProgress"
  /\ fileOutcome # Pending
  /\ pc' = IF fileOutcome.kind = "resolved" THEN "Completed" ELSE "Aborted"
  /\ upOutcome' = IF fileOutcome.kind = "resolved"
                    THEN UploadResult
                    ELSE fileOutcome
  /\ UNCHANGED <<svcVars, envVars, mode, fileSize, bufLen, localPort, invCalls, fileCalls>>
  /\ UNCHANGED <<invVars, fileVars>>

\* testConnection up to its await of sendInvitation.
TestConnection ==
  /\ mode = "test"
  /\ pc = "Idle"
  /\ CallSendInvitation(TestPort, 0, "test")
  /\ invCalls' = invCalls + 1
  /\ pc' = "InvitationPending"
  /\ UNCHANGED <<svcVars, envVars, mode, fileSize, bufLen, localPort, upOutcome, fileCalls>>
  /\ UNCHANGED fileVars

\* Mutant: testConnection lets a rejection of sendInvitation through.
TestAfterInvitationRethrow ==
  /\ mode = "test"
  /\ pc = "InvitationPending"
  /\ invOutcome # Pending
  /\ pc' = IF invOutcome.kind = "resolved" THEN "ReturnedTrue" ELSE "Raised"
  /\ upOutcome' = IF invOutcome.kind = "resolved"
                    THEN [kind |-> "resolved", value |-> invOutcome.success]
                    ELSE invOutcome
  /\ UNCHANGED <<svcVars, envVars, mode, fileSize, bufLen, localPort, invCalls, fileCalls>>
  /\ UNCHANGED <<invVars, fileVars>>

\* testConnection after the invitation settled.
TestAfterInvitation ==
  /\ mode = "test"
  /\ pc = "InvitationPending"
  /\ invOutcome # Pending
  /\ pc' = IF invOutcome.kind = "resolved" /\ invOutcome.success
             THEN "ReturnedTrue" ELSE "ReturnedFalse"
  /\ upOutcome' = IF invOutcome.kind = "resolved"
                    THEN [kind |-> "resolved", value |-> invOutcome.success]
                    ELSE [kind |-> "resolved", value |-> FALSE]
  /\ UNCHANGED <<svcVars, envVars, mode, fileSize, bufLen, localPort, invCalls, fileCalls>>
  /\ UNCHANGED <<invVars, fileVars>>

\* sendFile called on its own: the promise executor runs.
SendFileDirect ==
  /\ mode = "sendFile"
  /\ pc = "Idle"
  /\ pc' = "Called"
  /\ CallSendFile
  /\ fileCalls' = fileCalls + 1
  /\ UNCHANGED <<svcVars, envVars, mode, fileSize, bufLen, localPort, upOutcome, invCalls>>
  /\ UNCHANGED invVars

(***************************************************************************)
(* Specifications.                                                         *)
(*   SpecInv       sendInvitation, as testConnection calls it              *)
(*   SpecFile      sendFile, called on its own with any size and content,  *)
(*                 on a service whose progress sink was never set          *)
(*   SpecProgress  SpecFile with setProgressCallback called at any moment  *)
(*   Spec          uploadFirmware: the two reads of the file, which may be *)
(*                 rewritten meanwhile, the invitation, then the transfer  *)
(*                 to one device of at most one chunk and a byte           *)
(* The sink and the count of its calls are read by no branch of the code,  *)
(* so what SpecFile and Spec show of the other variables holds with any    *)
(* sink as well.                                                           *)
(***************************************************************************)
InitInv == Init /\ mode = "test"

NextInv ==
  \/ TestConnection
  \/ TestAfterInvitation
  \/ SendErrorCallback
  \/ \E data \in Replies : DeviceReply(data)
  \/ AttemptTimer

SpecInv == InitInv /\ [][NextInv]_vars

InitFile == Init /\ mode = "sendFile"

NextFile ==
  \/ SendFileDirect
  \/ ListenCallback
  \/ ServerError
  \/ \E c \in Conns : Accept(c)
  \/ \E c \in Conns, err \in BOOLEAN : WriteCallback(c, err)
  \/ \E c \in Conns, response \in Acks : DeviceData(c, response)
  \/ \E c \in Conns : ChunkDelay(c)
  \/ \E c \in Conns : SocketError(c)
  \/ Watchdog

SpecFile == InitFile /\ [][NextFile]_vars

\* sendFile with the progress sink set, replaced or removed at any moment.
InitProgress == Init /\ mode = "sendFile"

NextProgress ==
  \/ \E callback \in Callbacks : setProgressCallback(callback)
  \/ NextFile

SpecProgress == InitProgress /\ [][NextProgress]_vars

\* sendFile serving one device, whose acknowledgment may arrive before or
\* after the callback of the write it answers.
InitAck == Init /\ mode = "sendFile"

NextAck ==
  \/ SendFileDirect
  \/ ListenCallback
  \/ ServerError
  \/ Accept(1)
  \/ \E err \in BOOLEAN : WriteCallback(1, err)
  \/ \E response \in Acks : EarlyAck(1, response)
  \/ \E response \in Acks : DeviceData(1, response)
  \/ ChunkDelay(1)
  \/ SocketError(1)
  \/ Watchdog

SpecAck == InitAck /\ [][NextAck]_vars

InitUpload == Init /\ mode = "upload"

NextUpload ==
  \/ UploadFirmware
  \/ \E size \in RewrittenSizes : FileRewritten(size)
  \/ UploadAfterStat
  \/ UploadAfterRead
  \/ UploadReadFails
  \/ UploadAfterInvitation
  \/ UploadAfterTransfer
  \/ SendErrorCallback
  \/ \E data \in {TextOK, TextAuthNonce, <<>>} : DeviceReply(data)
  \/ AttemptTimer
  \/ ConnectRefused
  \/ ListenCallback
  \/ ServerError
  \/ Accept(1)
  \/ \E err \in BOOLEAN : WriteCallback(1, err)
  \/ \E response \in {TextOK, <<"E", "R", "R">>} : DeviceData(1, response)
  \/ ChunkDelay(1)
  \/ SocketError(1)
  \/ Watchdog

Spec == InitUpload /\ [][NextUpload]_vars

\* The values Math.floor(Math.random() * 50000) takes in the calls modelled.
RandomDraws == (0..MaxDraw) \cup {PortSpan - 1}

\* Call k of uploadFirmware draws its local port.
PickLocalPort(k) ==
  /\ ports[k] = 0
  /\ \E n \in RandomDraws : ports' = [ports EXCEPT ![k] = n + PortBase]
  /\ UNCHANGED <<refused, lostAcks, disk>>
  /\ UNCHANGED <<svcVars, upVars, invVars, fileVars>>

\* Call k of uploadFirmware returns or throws.
UploadEnds(k) ==
  /\ ports[k] # 0
  /\ ports' = [ports EXCEPT ![k] = 0]
  /\ UNCHANGED <<refused, lostAcks, disk>>
  /\ UNCHANGED <<svcVars, upVars, invVars, fileVars>>

\* Calls of uploadFirmware that run at the same time in one process, each
\* taken as the port it draws.
InitPorts == Init /\ mode = "upload" /\ disk = 0

NextPorts ==
  \/ \E k \in Calls : PickLocalPort(k)
  \/ \E k \in Calls : UploadEnds(k)

SpecPorts == InitPorts /\ [][NextPorts]_vars

\* uploadFirmware under the scheduling of the event loop: a pending
\* continuation runs, an expired timer's callback runs, the file read returns.
\* Nothing is assumed of the device, the network or the sockets' callbacks.
SpecLive ==
  /\ InitUpload
  /\ [][NextUpload]_vars
  /\ WF_vars(UploadFirmware)
  /\ WF_vars(UploadAfterStat \/ UploadAfterRead \/ UploadReadFails)
  /\ WF_vars(UploadAfterInvitation)
  /\ WF_vars(UploadAfterTransfer)
  /\ WF_vars(AttemptTimer)
  /\ WF_vars(Watchdog)


(***************************************************************************)
(* Properties of sendInvitation (SpecInv).                                 *)
(***************************************************************************)
Accepted == [kind |-> "resolved", success |-> TRUE, needsAuth |-> FALSE]

NoResponse == [kind |-> "rejected", error |-> "NoResponse"]

InvSettled == invOutcome # Pending

\* Everything of the invitation except the note that a reply was dropped.
invCore == <<message, udp, attempts, handlers, timer, sendErrPending, datagrams,
             waitedMs, invOutcome, attemptsAtSettle, repliesHandled, closedOps>>

\* C1: the call settles exactly once whatever the interleaving of replies,
\* timer expiries and send-error callbacks: a settled outcome never changes,
\* a pending call always has its attempt timer armed (so it settles, at the
\* latest when the tenth timer expires), and a reply that arrives after the
\* call has settled or the socket was closed runs no responseHandler and
\* changes nothing.
C1_SettlesOnceLateReplyIgnored ==
  [][ /\ (InvSettled => invOutcome' = invOutcome)
      /\ ((invOutcome' = Pending /\ udp' # "none") =>
             (timer' # 0 /\ udp' = "open" /\ attempts' <= 10))
      /\ ((InvSettled \/ udp = "closed") => repliesHandled' = repliesHandled)
      /\ (((InvSettled \/ udp = "closed") /\ \E data \in Replies : DeviceReply(data))
             => UNCHANGED <<invCore, upVars, fileVars>>)
    ]_vars

\* C1 witness: a reply was handled and resolved the call, a later reply was
\* dropped, and the timer chain ran to its tenth expiry, whose reject changed
\* nothing.
C1_Witness ==
  /\ invOutcome.kind = "resolved"
  /\ repliesHandled = 1
  /\ droppedReplies
  /\ waitedMs = 10 * AttemptWaitMs
  /\ timer = 0

\* C3: no call makes more than 10 attempts; while the call is pending attempt
\* k was sent after (k - 1) waits of 1000 ms; and the call that fails for want
\* of a reply does so at the tenth attempt after ten waits of 1000 ms, having
\* sent, when no send reported an error, exactly 10 datagrams.
C3_TenAttemptsThenTimeout ==
  /\ attempts <= 10
  /\ datagrams <= attempts
  /\ (invOutcome = Pending /\ udp = "open" => waitedMs = (attempts - 1) * 1000)
  /\ (invOutcome = NoResponse =>
        /\ attemptsAtSettle = 10
        /\ attempts = 10
        /\ waitedMs = 10 * 1000
        /\ repliesHandled = 0
        /\ (sendErrPending = 0 /\ "close" \notin closedOps => datagrams = 10))

\* C3 witness: ten datagrams left, none was answered, no send failed, and the
\* call failed with the timeout error.
C3_Witness ==
  /\ invOutcome = NoResponse
  /\ datagrams = 10
  /\ sendErrPending = 0
  /\ "close" \notin closedOps

\* C4: an "OK" that is handled before the first attempt timer expires
\* resolves the call Accepted with the attempt counter at 1 and one datagram
\* sent, and the call sends no datagram after it has resolved.
C4_AcceptedAfterOneAttempt ==
  [][ /\ ((waitedMs = 0 /\ invOutcome = Pending /\ udp = "open"
             /\ DeviceReply(TextOK))
            => (invOutcome' = Accepted /\ attempts' = 1 /\ attemptsAtSettle' = 1
                /\ datagrams' = 1))
      /\ (invOutcome = Accepted => datagrams' = datagrams)
    ]_vars

\* C4 witness: Accepted at the first attempt, and the one datagram is still
\* the only one when every timer of the call has expired.
C4_Witness ==
  /\ invOutcome = Accepted
  /\ attemptsAtSettle = 1
  /\ datagrams = 1
  /\ attempts = 10
  /\ timer = 0


(***************************************************************************)
(* Properties of sendFile (SpecFile).                                      *)
(***************************************************************************)
RECURSIVE SumSeq(_)
SumSeq(q) == IF q = <<>> THEN 0 ELSE Head(q) + SumSeq(Tail(q))

RECURSIVE SumOver(_, _)
SumOver(f, n) == IF n = 0 THEN 0 ELSE f[n] + SumOver(f, n - 1)

Ceil(a, b) == (a + b - 1) \div b

FileSettled == fileOutcome # Pending

HasConnected(c) == conns[c].stage # "none"

\* Chunks written to connection c whose positive acknowledgment has not been
\* handled.
Unacked(c) == Len(conns[c].chunks) - conns[c].acks

\* Bytes of connection c that the receiver has positively acknowledged.
AckedBytes(c) == SumSeq(SubSeq(conns[c].chunks, 1, conns[c].acks))

ChunksWritten == SumOver([c \in Conns |-> Len(conns[c].chunks)], MaxConns)

ProgressReports == SumOver([c \in Conns |-> conns[c].reports], MaxConns)

Completions ==
  SumOver([c \in Conns |-> IF conns[c].stage = "done" THEN 1 ELSE 0], MaxConns)

\* C2: at every moment of a sendFile session at most one written chunk is
\* unacknowledged.
C2_OneChunkInFlight ==
  SumOver([c \in Conns |-> Unacked(c)], MaxConns) <= 1

\* Each connection taken alone keeps the handshake: the chunk loop of a
\* connection has at most one chunk written and not yet acknowledged.
OneChunkInFlightPerConnection ==
  \A c \in Conns : Unacked(c) \in {0, 1}

\* C5: a sendFile session hands the firmware to one connection: at most one
\* inbound connection ever starts a chunk loop.
C5_OneConnection ==
  Cardinality({c \in Conns : HasConnected(c)}) <= 1

\* C6: when sendFile has settled, the listener and every accepted connection
\* have been closed.
C6_AllClosedWhenSettled ==
  FileSettled =>
    /\ server = "closed"
    /\ \A c \in Conns : conns[c].sock \in {"none", "ended"}

\* C7: once the watchdog has fired on a session that had not completed, no
\* chunk is written, no progress is reported and no success completion is
\* performed.
C7_WatchdogSupersedes ==
  [][ (watchdog = "fired" /\ wdFiredPending) =>
        /\ ChunksWritten' = ChunksWritten
        /\ ProgressReports' = ProgressReports
        /\ Completions' = Completions
    ]_vars

\* C8: when the watchdog has fired the listener is closed, and the session
\* that was still pending at that moment has failed with the timeout error.
C8_WatchdogTimeout ==
  watchdog = "fired" =>
    /\ server = "closed"
    /\ serverCloses >= 1
    /\ (wdFiredPending => fileOutcome = Failure("Timeout"))

\* C8 witness: a device connected, got a chunk and stopped acknowledging; the
\* watchdog fired on the pending session.
C8_Witness ==
  /\ watchdog = "fired"
  /\ wdFiredPending
  /\ conns[1].stage = "awaitAck"
  /\ fileOutcome = Failure("Timeout")

\* C9: the byte counter (and with it the reported progress) never exceeds
\* the bytes the receiver has positively acknowledged.
C9_CounterAfterAck ==
  \A c \in Conns : conns[c].uploadedBytes <= AckedBytes(c)

\* The size the k-th chunk of a fileSize-byte firmware must have.
ExpectedChunk(k) == Min(1024, fileSize - (k - 1) * 1024)

\* The chunks of connection cn whose write callback ran without an error: all
\* of them, or all but the last while its write is outstanding or has failed.
WritesCompleted(cn) ==
  IF \/ cn.stage = "writing"
     \/ cn.stage = "stopped" /\ cn.uploadedBytes < SumSeq(cn.chunks)
    THEN Len(cn.chunks) - 1
    ELSE Len(cn.chunks)

\* C10: for a payload of S > 0 bytes, on every connection: each chunk
\* written has the size min(1024, S - bytesSent) and is not empty, the counter
\* is the sum of the chunks whose write was reported and never exceeds S, no
\* more than ceil(S/1024) chunks are written, and when the loop completes
\* exactly ceil(S/1024) chunks were written and the counter equals S (2500
\* bytes go out as 1024, 1024, 452).
C10_ChunkArithmetic ==
  (fileSize > 0 /\ bufLen = fileSize) =>
    \A c \in Conns :
      LET cn == conns[c] IN
        /\ \A k \in 1..Len(cn.chunks) :
             cn.chunks[k] = ExpectedChunk(k) /\ cn.chunks[k] > 0
        /\ Len(cn.chunks) <= Ceil(fileSize, 1024)
        /\ cn.reports <= WritesCompleted(cn)
        /\ cn.uploadedBytes = SumSeq(SubSeq(cn.chunks, 1, WritesCompleted(cn)))
        /\ cn.uploadedBytes <= fileSize
        /\ (cn.stage = "done" =>
              /\ Len(cn.chunks) = Ceil(fileSize, 1024)
              /\ cn.uploadedBytes = fileSize
              /\ SumSeq(cn.chunks) = fileSize
              /\ (fileSize = 2500 => cn.chunks = <<1024, 1024, 452>>))

\* C10 witness: one connection took the 2500-byte firmware to completion on
\* positive acknowledgments only.
C10_Witness ==
  /\ fileSize = 2500
  /\ bufLen = 2500
  /\ conns[1].stage = "done"
  /\ conns[1].acks = 3
  /\ \A c \in Conns : c # 1 => conns[c].stage = "none"


(***************************************************************************)
(* The acknowledgment decides: abort or continue (SpecFile).               *)
(***************************************************************************)

\* The text is empty or contains "OK".
EmptyOrHasOK(text) == text = <<>> \/ Includes(text, TextOK)

\* The acknowledgments by their content as received, and by their content
\* with surrounding whitespace trimmed.
RawPositive == [r \in Acks |-> EmptyOrHasOK(r)]

TrimmedPositive == [r \in Acks |-> EmptyOrHasOK(Trim(r))]

\* What the handling of one acknowledgment on connection c does, for an
\* acknowledgment that counts as positive or not.
AckEffect(c, positive) ==
  IF positive
    THEN /\ conns'[c].stage = "delay"
         /\ conns'[c].chunks = conns[c].chunks
         /\ fileOutcome' = fileOutcome
         /\ server' = server
    ELSE /\ conns'[c].stage = "stopped"
         /\ conns'[c].chunks = conns[c].chunks
         /\ server' = "closed"
         /\ fileOutcome' = Settle(fileOutcome, Failure("BadAck"))

\* A stopped chunk loop writes nothing more; a loop that waits out the 10 ms
\* after a positive acknowledgment goes on to the next write or to completion.
LoopAfterAck(c) ==
  /\ conns[c].stage = "stopped" =>
        conns'[c].stage = "stopped" /\ conns'[c].chunks = conns[c].chunks
  /\ conns[c].stage = "delay" => conns'[c].stage \in {"delay", "writing", "done"}
  /\ (conns[c].stage = "delay" /\ conns'[c].stage = "writing") =>
        Len(conns'[c].chunks) = Len(conns[c].chunks) + 1

\* C11 as stated: the content of the acknowledgment itself is classified.  An
\* acknowledgment that is neither empty nor contains "OK" stops the loop of
\* its connection and fails sendFile with the unexpected-acknowledgment error;
\* any other acknowledgment lets the loop continue.
C11_RawAckDecides ==
  [][\A c \in Conns :
       /\ (conns[c].stage = "awaitAck" /\ conns'[c].stage # "awaitAck") =>
            \A r \in Acks : AckEffect(c, RawPositive[r]) \/ ~DeviceData(c, r)
       /\ LoopAfterAck(c)]_vars

\* C11, amended: the content is classified after surrounding whitespace is
\* trimmed.  An acknowledgment whose trimmed content is neither empty nor
\* contains "OK" closes the listener, stops the loop of its connection, which
\* writes no further chunk, and fails sendFile, unless it has settled already,
\* with the unexpected-acknowledgment error; an acknowledgment whose trimmed
\* content is empty or contains "OK" changes no outcome and the loop continues
\* with the next chunk or completes.
C11_TrimmedAckDecides ==
  [][\A c \in Conns :
       /\ (conns[c].stage = "awaitAck" /\ conns'[c].stage # "awaitAck") =>
            \A r \in Acks : AckEffect(c, TrimmedPositive[r]) \/ ~DeviceData(c, r)
       /\ LoopAfterAck(c)]_vars

\* A connection had a chunk acknowledged and then received an unexpected
\* acknowledgment of the next one: sendFile failed with that error.
C11_Witness ==
  /\ fileOutcome = Failure("BadAck")
  /\ \E c \in Conns :
       /\ conns[c].stage = "stopped"
       /\ conns[c].acks = 1
       /\ Len(conns[c].chunks) = 2
       /\ conns[c].uploadedBytes > chunkSize


(***************************************************************************)
(* The state in which sendFile resolves (SpecFile).                        *)
(***************************************************************************)

\* Connection c wrote the whole payload size and had every chunk it wrote
\* acknowledged, and its socket was ended.
CompletedOn(c) ==
  /\ conns[c].stage = "done"
  /\ conns[c].uploadedBytes = fileSize
  /\ conns[c].acks = Len(conns[c].chunks)
  /\ conns[c].sock # "open"

\* Every chunk written in the session is acknowledged, the counter of every
\* accepted connection is at the payload size, and the listener and every
\* accepted connection are closed.
AllAckedAllClosed ==
  /\ server = "closed"
  /\ \A c \in Conns : HasConnected(c) =>
        /\ conns[c].uploadedBytes = fileSize
        /\ conns[c].acks = Len(conns[c].chunks)
        /\ conns[c].sock # "open"

\* The step that resolves the promise of sendFile.
Resolves == fileOutcome = Pending /\ fileOutcome' = Success

\* C12: sendFile resolves with success only in a state where the bytes sent
\* equal the payload size and every written chunk, the last included, has
\* been positively acknowledged; at that moment the accepted connection and
\* the listener are closed.
C12_SuccessOnlyWhenAllAcked == [][Resolves => AllAckedAllClosed']_vars

\* What holds of C12 in the code: the promise resolves on a connection that
\* completed, with the listener closed.
SuccessOnCompletingConnection ==
  [][Resolves => (server' = "closed" /\ \E c \in Conns :
                    conns[c].stage # "done" /\ CompletedOn(c)')]_vars


(***************************************************************************)
(* uploadFirmware: the invitation, then the transfer (Spec).               *)
(***************************************************************************)

AuthRequired(outcome) == outcome.kind = "resolved" /\ outcome.needsAuth

InvFailed == invOutcome.kind = "rejected"

\* sendFile has not been started: no call, no listener, no watchdog, no
\* connection and no chunk.
TransferNotStarted ==
  /\ fileCalls = 0
  /\ server = "none"
  /\ watchdog = "idle"
  /\ fileOutcome = Pending
  /\ \A c \in Conns : conns[c] = NoConn

\* C13: uploadFirmware starts sendFile only after the invitation's outcome
\* Accepted: when the invitation resolves AuthRequired, or fails, no listener
\* is opened and no firmware byte is sent.
C13_TransferOnlyAfterAccepted ==
  /\ (AuthRequired(invOutcome) \/ InvFailed) => TransferNotStarted
  /\ ~TransferNotStarted => invOutcome = Accepted

\* What holds of C13 in the code: a failed invitation starts no transfer, and
\* a transfer is started only after the invitation resolved.
TransferOnlyAfterResolved ==
  /\ InvFailed => TransferNotStarted
  /\ ~TransferNotStarted => invOutcome.kind = "resolved"


(***************************************************************************)
(* The reply grammar of sendInvitation (SpecInv).                          *)
(***************************************************************************)

\* The reply reaches the open socket of a pending call: responseHandler runs.
Handled(data) == invOutcome = Pending /\ udp = "open" /\ DeviceReply(data)

AuthRequiredWith(nonce) ==
  [kind |-> "resolved", success |-> TRUE, needsAuth |-> TRUE, nonce |-> nonce]

\* C14: a reply whose text is exactly "OK" resolves sendInvitation with
\* Accepted (needsAuth false); the reply "AUTH abc123" resolves it with
\* AuthRequired and the nonce "abc123".
C14_OkAndAuthReplies ==
  [][/\ Handled(TextOK) => invOutcome' = Accepted
     /\ Handled(TextAuthNonce) => invOutcome' = AuthRequiredWith(TextNonce)]_vars

\* The call resolved AuthRequired with the nonce "abc123".
C14_Witness ==
  /\ invOutcome = AuthRequiredWith(TextNonce)
  /\ repliesHandled = 1

TextAUTHSpace == <<"A", "U", "T", "H", " ">>

ProtocolError(text) == [kind |-> "rejected", error |-> "BadResponse", raw |-> text]

\* C15: every reply whose text is neither exactly "OK" nor begins with
\* "AUTH " (among them "AUTH", "AUTHX", "OKAY" and the empty text) fails
\* sendInvitation with a protocol error carrying the text, and never resolves
\* it.  The text is read as the handler reads it, trimmed.
C15_OtherRepliesRejected ==
  [][\A r \in Replies :
       (Trim(r) # TextOK /\ ~StartsWith(Trim(r), TextAUTHSpace) /\ Handled(r))
         => invOutcome' = ProtocolError(Trim(r))]_vars

\* What holds of C15 in the code: the replies that are neither "OK" nor begin
\* with "AUTH" are rejected with their trimmed text.
RepliesWithoutAuthPrefixRejected ==
  [][\A r \in Replies :
       (Trim(r) # TextOK /\ ~StartsWith(Trim(r), TextAUTH) /\ Handled(r))
         => invOutcome' = ProtocolError(Trim(r))]_vars

\* C16: whenever sendInvitation has settled, on every exit path (Accepted,
\* AuthRequired, protocol error, timeout, UDP send error), the UDP socket
\* has been closed.
C16_SettledMeansSocketClosed == InvSettled => udp = "closed"

\* The call failed with the send error of a later attempt, after the timer of
\* an earlier attempt expired.
C16_Witness ==
  /\ invOutcome = [kind |-> "rejected", error |-> "SendError"]
  /\ attemptsAtSettle = 2
  /\ udp = "closed"

\* C17: within one call of uploadFirmware the invitation completes before the
\* transfer begins: the listener is not opened and no chunk is written before
\* sendInvitation has settled, and the two phases never overlap.  The step
\* that starts sendFile finds the promise of sendInvitation settled and its
\* socket closed, and from then on the invitation sends no datagram, handles
\* no reply and keeps its outcome.
C17_InvitationBeforeTransfer ==
  [][/\ ~TransferNotStarted' => (InvSettled /\ udp = "closed")
     /\ ~TransferNotStarted =>
          UNCHANGED <<invOutcome, udp, datagrams, repliesHandled, message>>]_vars

\* The transfer is under way, a chunk written, after an accepted invitation
\* whose attempt timers are still expiring.
C17_Witness ==
  /\ pc = "TransferInProgress"
  /\ invOutcome = Accepted
  /\ attempts > attemptsAtSettle
  /\ server = "listening"
  /\ conns[1].stage = "awaitAck"

UpSettled == upOutcome # Pending

\* The outcome of uploadFirmware once the continuation of a failed phase ran.
FailureIsTheUploadsError ==
  /\ (InvFailed /\ pc # "InvitationPending") =>
        /\ pc = "Aborted"
        /\ upOutcome = invOutcome
        /\ TransferNotStarted
  /\ (fileOutcome.kind = "rejected" /\ pc # "TransferInProgress") =>
        /\ pc = "Aborted"
        /\ upOutcome = fileOutcome
  /\ (UpSettled /\ upOutcome.kind = "resolved") =>
        /\ invOutcome.kind = "resolved"
        /\ fileOutcome.kind = "resolved"

\* C18: a failure in either phase aborts the whole upload with exactly one
\* terminal error.  When sendInvitation fails, uploadFirmware fails with that
\* error and sendFile is not started; when sendFile fails, uploadFirmware
\* fails with that error and returns no success result; a settled
\* uploadFirmware starts nothing and keeps its outcome.
C18_FailureAbortsUpload ==
  [][/\ FailureIsTheUploadsError'
     /\ UpSettled => UNCHANGED <<upOutcome, pc, invCalls, fileCalls>>]_vars

\* The upload was aborted with the unexpected-acknowledgment error of sendFile
\* after an accepted invitation and one acknowledged chunk.
C18_Witness ==
  /\ pc = "Aborted"
  /\ invOutcome = Accepted
  /\ upOutcome = Failure("BadAck")
  /\ conns[1].acks = 1

\* C19: one call of uploadFirmware invokes sendInvitation at most once and
\* sendFile at most once, and sendFile only after sendInvitation.
C19_EachPhaseAtMostOnce ==
  /\ invCalls <= 1
  /\ fileCalls <= 1
  /\ fileCalls <= invCalls

\* The upload was aborted by the timeout of sendFile: each phase was called
\* once and neither was tried again.
C19_Witness ==
  /\ pc = "Aborted"
  /\ upOutcome = Failure("Timeout")
  /\ invCalls = 1
  /\ fileCalls = 1


(***************************************************************************)
(* testConnection (SpecInv).                                               *)
(***************************************************************************)

Returned(value) == [kind |-> "resolved", value |-> value]

\* C20: testConnection returns true exactly when the invitation's outcome is
\* Accepted or AuthRequired, and false for every failure of the invitation;
\* it never raises.  It returns as soon as the invitation has settled.
C20_TestConnectionResult ==
  /\ UpSettled =>
        upOutcome = Returned(invOutcome = Accepted \/ AuthRequired(invOutcome))
  /\ UpSettled => (InvSettled /\ (upOutcome = Returned(FALSE) <=> InvFailed))
  /\ (InvSettled /\ pc # "InvitationPending") => UpSettled

\* testConnection returned false after ten unanswered attempts.
C20_Witness ==
  /\ upOutcome = Returned(FALSE)
  /\ invOutcome = NoResponse
  /\ pc = "ReturnedFalse"


(***************************************************************************)
(* Termination of uploadFirmware (SpecLive).                               *)
(***************************************************************************)

\* The call is in a terminal state, with the outcome that goes with it.
Terminated ==
  \/ pc = "Completed" /\ upOutcome.kind = "resolved"
  \/ pc = "Aborted" /\ upOutcome.kind = "rejected"

\* C21: every call of uploadFirmware eventually reaches one of the terminal
\* states Completed and Aborted, whatever the device does, and stays in it.
C21_ReachesTerminalAndStays == <>[]Terminated

\* The device connected, received a chunk and never acknowledged it: the
\* upload was aborted by the watchdog.
C21_Witness ==
  /\ pc = "Aborted"
  /\ upOutcome = Failure("Timeout")
  /\ conns[1].stage = "awaitAck"
  /\ conns[1].acks = 0


(***************************************************************************)
(* The local ports of concurrent uploads (SpecPorts).                      *)
(***************************************************************************)

PortsInRange ==
  \A k \in Calls :
    ports[k] # 0 => ports[k] \in PortBase..(PortBase + PortSpan - 1)

\* C22: the local port of each call of uploadFirmware lies in the range the
\* ports are drawn from, and two uploads that run at the same time in one
\* process never use the same local port.
C22_PortsInRangeAndDistinct ==
  /\ PortsInRange
  /\ \A j, k \in Calls :
       (j # k /\ ports[j] # 0 /\ ports[k] # 0) => ports[j] # ports[k]


(***************************************************************************)
(* The values given to the progress callback (SpecProgress).  A value is   *)
(* uploadedBytes / fileSize; values of one session are compared by their   *)
(* numerators.                                                             *)
(***************************************************************************)

\* The step reports a progress value on connection c.
Reports(c) == conns'[c].reports = conns[c].reports + 1

\* The value reported on connection c lies between 0 and 1.
ReportInRange(c) ==
  /\ fileSize > 0
  /\ conns'[c].uploadedBytes >= 0
  /\ conns'[c].uploadedBytes <= fileSize

\* C23: every value passed to the progress callback during an upload is a
\* fraction between 0 and 1, no value is smaller than the one reported before
\* it, and the last value reported before a successful completion is 1.
C23_ProgressMonotone ==
  [][/\ \A c \in Conns : Reports(c) =>
          /\ ReportInRange(c)
          /\ lastProgress' = conns'[c].uploadedBytes
          /\ lastProgress <= lastProgress'
     /\ Resolves => (lastProgress' # -1 => lastProgress' = fileSize)]_vars

\* What holds of C23 in the code: the values reported on one connection are
\* in range and increase, and a connection that completes while the sink is
\* set reported 1 last.
ProgressOnOneConnection ==
  [][/\ \A c \in Conns : Reports(c) =>
          /\ ReportInRange(c)
          /\ conns[c].uploadedBytes < conns'[c].uploadedBytes
          /\ lastProgress' = conns'[c].uploadedBytes
     /\ \A c \in Conns :
          (/\ progressCallback # "null"
           /\ conns[c].stage = "writing" /\ conns'[c].stage = "awaitAck"
           /\ conns'[c].uploadedBytes >= fileSize)
            => lastProgress' = fileSize]_vars


(***************************************************************************)
(* Size and digest of one upload (Spec).                                   *)
(***************************************************************************)

\* The size and the digest computed by uploadFirmware before the invitation.
SizeAndDigest == <<fileSize, calculateMD5(bufLen)>>

\* The size and the digest the invitation datagrams carry.
Announced == <<message[3], message[4]>>

\* C24: size and digest are computed once per call of uploadFirmware, before
\* the invitation is sent, and never again: the size and digest in every
\* invitation datagram, the size that bounds the chunk loop and the size and
\* digest of the returned result are the same values.
C24_SizeAndDigestOnce ==
  [][/\ udp' # "none" => Announced' = SizeAndDigest'
     /\ udp # "none" =>
          /\ message' = message
          /\ SizeAndDigest' = SizeAndDigest
     /\ \A c \in Conns :
          conns'[c].stage = "done" => conns'[c].uploadedBytes = message'[3]
     /\ fileOutcome'.kind = "resolved" => fileOutcome'.fileSize = message'[3]
     /\ pc' = "Completed" =>
          <<upOutcome'.fileSize, upOutcome'.fileMD5>> = Announced']_vars

\* The upload of a chunk and a byte completed after a second invitation
\* datagram had been sent.
C24_Witness ==
  /\ pc = "Completed"
  /\ fileSize = chunkSize + 1
  /\ datagrams >= 2
  /\ upOutcome = UploadResult


(***************************************************************************)
(* The watchdog after the session settled (SpecFile).                      *)
(***************************************************************************)

\* The 60 s timer expires in this step.
WatchdogFires == watchdog = "armed" /\ watchdog' = "fired"

\* C25: the watchdog acts only on a session that has not completed: once
\* sendFile has resolved or failed, the expiry of the watchdog timer has no
\* effect, the listener is not closed again and no rejection is attempted.
C25_WatchdogIdleAfterSettle ==
  [][(WatchdogFires /\ FileSettled) =>
       /\ serverCloses' = serverCloses
       /\ server' = server
       /\ fileOutcome' = fileOutcome]_vars

\* What holds of C25 in the code: a watchdog that expires after the session
\* settled changes neither the outcome nor any connection.
LateWatchdogKeepsOutcome ==
  [][(WatchdogFires /\ FileSettled) =>
       /\ fileOutcome' = fileOutcome
       /\ conns' = conns]_vars


(***************************************************************************)
(* The UDP socket after its close (SpecInv).                               *)
(***************************************************************************)

\* C26: once the UDP socket of a call of sendInvitation has been closed, on a
\* reply, a send error or the final timeout, nothing more is done with it: no
\* datagram is sent on it, no reply listener is registered, no attempt timer
\* starts a new attempt, and close is not called again.
C26_NothingAfterClose ==
  udp = "closed" =>
    /\ closedOps = {}
    /\ attempts = attemptsAtSettle

\* What holds of C26 in the code: no datagram leaves after the close.
NoDatagramAfterClose == [][udp = "closed" => datagrams' = datagrams]_vars


(***************************************************************************)
(* The listener and the device's connection (Spec).                        *)
(***************************************************************************)

\* C27: a device that connects to the announced port right after it sent
\* its "OK" always finds the listener listening: in every interleaving the
\* listener of an upload is bound before the device can try to connect.
C27_ListenerBoundBeforeConnect == ~refused

\* What holds of C27 in the code: a connection is accepted only by a bound
\* listener, which is created after the reply was handled.
AcceptOnlyWhenListening ==
  [][\A c \in Conns :
       (conns[c].stage = "none" /\ conns'[c].stage # "none")
         => (server = "listening" /\ invOutcome.kind = "resolved")]_vars


(***************************************************************************)
(* Acknowledgments and the write callback (SpecAck).                       *)
(***************************************************************************)

\* C28: the chunk loop loses no acknowledgment: every acknowledgment the
\* receiver sends for the outstanding chunk is observed by sendFile, whether
\* it arrives before or after the callback of the write, so that a receiver
\* that acknowledges every chunk is served to completion and the session
\* does not stall until the watchdog.
C28_NoAckLost == ~lostAcks

\* The stall C28 excludes: the one acknowledgment was dropped, the loop waits
\* for it, and the watchdog ended the session.
StalledAfterLostAck ==
  /\ lostAcks
  /\ conns[1].stage = "awaitAck"
  /\ fileOutcome = Failure("Timeout")

\* What holds of C28 in the code: an acknowledgment that arrives after the
\* callback of the write is handled.
AckAfterWriteCallbackHandled ==
  [][\A r \in Acks :
       (conns[1].stage = "awaitAck" /\ DeviceData(1, r))
         => conns'[1].stage \in {"delay", "stopped"}]_vars


(***************************************************************************)
(* The reply listeners of a pending invitation (SpecInv).                  *)
(***************************************************************************)

\* sendInvitation was called and has not settled.
Unsettled == udp # "none" /\ invOutcome = Pending

\* C29: while a call of sendInvitation is unsettled, exactly one reply
\* listener is registered on its open socket at every moment: no reply that
\* arrives between two attempts is dropped, and no reply is handled by more
\* than one handler.
C29_OneReplyListener ==
  /\ Unsettled =>
        /\ udp = "open"
        /\ handlers = {attempts}
        /\ ~droppedReplies
  /\ repliesHandled <= 1

\* The reply to the third attempt was handled once, by the listener of that
\* attempt.
C29_Witness ==
  /\ invOutcome = Accepted
  /\ attemptsAtSettle = 3
  /\ repliesHandled = 1
  /\ ~droppedReplies


(***************************************************************************)
(* The byte counter and the bytes written (SpecFile).                      *)
(***************************************************************************)

\* The bytes of the chunks handed to socket.write on connection c, and of
\* those whose write callback has run without an error.
BytesHanded(c) == SumSeq(conns[c].chunks)

BytesWritten(c) ==
  IF conns[c].stage = "writing"
    THEN SumSeq(SubSeq(conns[c].chunks, 1, Len(conns[c].chunks) - 1))
    ELSE BytesHanded(c)

\* C30: in sendFile the sent-byte counter always equals the number of bytes
\* written to the connection, for every combination of the fileSize argument
\* and the length of the decoded buffer; success is never reported when
\* fewer than fileSize bytes were written.
C30_CounterIsBytesWritten ==
  \A c \in Conns :
    /\ conns[c].stage \in {"writing", "awaitAck", "delay", "done"} =>
          conns[c].uploadedBytes = BytesWritten(c)
    /\ conns[c].stage = "done" => BytesWritten(c) = fileSize

\* What holds of C30 in the code: the counter equals the bytes written when
\* the buffer holds as many bytes as fileSize says.
CounterIsBytesWrittenOfFullBuffer ==
  bufLen = fileSize =>
    \A c \in Conns :
      /\ conns[c].stage \in {"writing", "awaitAck", "delay", "done"} =>
            conns[c].uploadedBytes = BytesWritten(c)
      /\ conns[c].stage = "done" => BytesWritten(c) = fileSize

=============================================================================
